---------------------------- MODULE Spec2Model ----------------------------
(***************************************************************************)
(* Model of carbon_simulator.py (CarbonCreditSimulator) and of the call     *)
(* app.py makes to it.                                                      *)
(*                                                                          *)
(* Numbers.  Python floats are modelled by exact rationals <<num, den>>     *)
(* (den > 0, lowest terms).  Percentages (pct, pct_remove, annual           *)
(* mortality) are whole per cent; int(x) of a non-negative x is \div.       *)
(* Diameters (dbh_cm) are held in tenths of a centimetre, so 1.0 cm is 10   *)
(* and growth_mm / 10.0 cm is growth_mm tenths.  Allometric coefficients    *)
(* are held as written in the table: a in 1e-4, b in 1e-3, wood_density in  *)
(* 1e-2.                                                                    *)
(*                                                                          *)
(* Biomass.  a * dbh ** b has a real exponent, so the above-ground biomass  *)
(* of one tree is kept as the term [a, b, dbh] it is computed from, and a   *)
(* biomass-derived figure is a quantity: a rational weight for every term   *)
(* plus a rational constant.  calculate_agb_kg floors every tree at 0.01    *)
(* kg, so every term stands for a strictly positive number.                 *)
(***************************************************************************)
EXTENDS Integers, Sequences, FiniteSets, TLC

(***************************************************************************)
(* Bounds of the model.                                                     *)
(***************************************************************************)
MaxRows == 3
MaxArea == 2
MaxMix == 2
MaxYears == 3

(***************************************************************************)
(* Program constants (carbon_simulator.py:5-8), in per cent.                *)
(***************************************************************************)
CARBON_FRACTION == 47
CO2E_FACTOR == 367
ROOT_SHOOT_RATIO == 20
VERRA_BUFFER == 20

(***************************************************************************)
(* Rational arithmetic.                                                     *)
(***************************************************************************)
RECURSIVE GCD(_, _)
GCD(x, y) == IF y = 0 THEN x ELSE GCD(y, x % y)

Abs(x) == IF x < 0 THEN -x ELSE x

Rat(n, d) ==
    LET g == GCD(Abs(n), d)
    IN  IF n = 0 THEN <<0, 1>> ELSE <<n \div g, d \div g>>

RMul(p, q) == Rat(p[1] * q[1], p[2] * q[2])

RAdd(p, q) == Rat(p[1] * q[2] + q[1] * p[2], p[2] * q[2])

RZero == <<0, 1>>

Pct(n) == Rat(n, 100)

(***************************************************************************)
(* Input domains.                                                           *)
(***************************************************************************)
TropicalFast ==
    {"Acacia mangium", "Eucalyptus grandis", "Gmelina arborea",
     "Paulownia tomentosa", "Leucaena leucocephala"}

TableSpecies == {"Acacia mangium", "Tectona grandis"}

TableRegions == {"tropical", "temperate"}

LookupSpecies == TableSpecies \cup {"Pinus sylvestris"}

LookupRegions == TableRegions \cup {"boreal"}

\* The coefficient values a row of the table may carry; wood_density is
\* <<>> where the cell is blank (NaN after read_csv).
RowValues ==
    { [a |-> 1200, b |-> 2400, wood_density |-> <<>>],
      [a |-> 2500, b |-> 2100, wood_density |-> <<60>>] }

Rows ==
    { [species_name |-> s, region |-> r, a |-> v.a, b |-> v.b,
       wood_density |-> v.wood_density] :
         s \in TableSpecies, r \in TableRegions, v \in RowValues }

RECURSIVE SeqsUpTo(_, _)
SeqsUpTo(S, n) ==
    IF n = 0 THEN {<<>>}
    ELSE LET shorter == SeqsUpTo(S, n - 1)
         IN  shorter \cup { Append(q, x) : q \in {p \in shorter : Len(p) = n - 1}, x \in S }

Tables == SeqsUpTo(Rows, MaxRows)

(***************************************************************************)
(* Allometric coefficient store.                                            *)
(* coeff_cache is a Python dict: a sequence of [key, coeffs] in insertion   *)
(* order; assigning to a key already present replaces the value in place.   *)
(***************************************************************************)
DictHas(d, key) == \E i \in 1..Len(d) : d[i].key = key

DictGet(d, key) == d[CHOOSE i \in 1..Len(d) : d[i].key = key].val

DictSet(d, key, val) ==
    IF DictHas(d, key)
    THEN [i \in 1..Len(d) |-> IF d[i].key = key THEN [key |-> key, val |-> val] ELSE d[i]]
    ELSE Append(d, [key |-> key, val |-> val])

DefaultWoodDensity == 50

RowCoeffs(row) ==
    [a |-> row.a, b |-> row.b,
     wood_density |-> IF row.wood_density # <<>> THEN row.wood_density[1]
                      ELSE DefaultWoodDensity]

RECURSIVE build_coeff_cache(_, _)
build_coeff_cache(df, cache) ==
    IF df = <<>> THEN cache
    ELSE build_coeff_cache(Tail(df),
             DictSet(cache, <<Head(df).species_name, Head(df).region>>, RowCoeffs(Head(df))))

GenericDefault == [a |-> 673, b |-> 2323, wood_density |-> 50]

\* Faulty variant: the loop returns the first entry without comparing the species.
SpeciesFallbackAny(cache, species) ==
    IF cache = <<>> THEN GenericDefault ELSE cache[1].val

\* Faulty variant: the last entry of the species wins instead of the first.
SpeciesFallbackLast(cache, species) ==
    LET hits == {i \in 1..Len(cache) : cache[i].key[1] = species}
    IN  IF hits = {} THEN GenericDefault
        ELSE cache[CHOOSE i \in hits : \A j \in hits : i >= j].val

SpeciesFallback(cache, species) ==
    LET hits == {i \in 1..Len(cache) : cache[i].key[1] = species}
    IN  IF hits = {} THEN GenericDefault
        ELSE cache[CHOOSE i \in hits : \A j \in hits : i <= j].val

get_coeffs(cache, species, region) ==
    IF DictHas(cache, <<species, region>>)
    THEN DictGet(cache, <<species, region>>)
    ELSE SpeciesFallback(cache, species)

(***************************************************************************)
(* Quantities: sum over terms of w * AGB(term), plus const.                 *)
(* agb is a set of [term, w] with distinct terms and w # 0.                 *)
(***************************************************************************)
QZero == [agb |-> {}, const |-> RZero]

QConst(r) == [agb |-> {}, const |-> r]

QTerm(t) == [agb |-> {[term |-> t, w |-> <<1, 1>>]}, const |-> RZero]

QTerms(q) == {e.term : e \in q.agb}

QWeight(q, t) ==
    IF t \in QTerms(q) THEN (CHOOSE e \in q.agb : e.term = t).w ELSE RZero

QAdd(p, q) ==
    [agb |-> {e \in {[term |-> t, w |-> RAdd(QWeight(p, t), QWeight(q, t))] :
                        t \in QTerms(p) \cup QTerms(q)} : e.w # RZero},
     const |-> RAdd(p.const, q.const)]

QScale(q, r) ==
    [agb |-> {e \in {[term |-> f.term, w |-> RMul(f.w, r)] : f \in q.agb} : e.w # RZero},
     const |-> RMul(q.const, r)]

\* Every term is >= 0.01 > 0 and every weight the program produces is >= 0,
\* so a quantity with const = 0 is the number 0 exactly when it has no term.
QIsZero(q) == q.agb = {} /\ q.const = RZero

\* calculate_agb_kg: max(a * dbh ** b, 0.01) for one tree.
calculate_agb_kg(cache, dbh, species, region) ==
    LET coeffs == get_coeffs(cache, species, region)
    IN  QTerm([a |-> coeffs.a, b |-> coeffs.b, dbh |-> dbh])

(***************************************************************************)
(* Soil carbon.                                                             *)
(***************************************************************************)
SocDefault(region) ==
    CASE region = "tropical" -> 75
      [] region = "temperate" -> 100
      [] region = "boreal" -> 150
      [] OTHER -> 75

estimate_soil_carbon(area, region) ==
    LET initial_soc_t == Rat(area * SocDefault(region), 1)
        delta_soc_t == RMul(initial_soc_t, Rat(10, 100))
    IN  RMul(delta_soc_t, Pct(CO2E_FACTOR))

(***************************************************************************)
(* Growth-rate policy.                                                      *)
(***************************************************************************)
\* Faulty variant: no growth outside the two named regions.
get_dbh_growth_mm_flat(species, region) ==
    IF region = "tropical" THEN (IF species \in TropicalFast THEN 20 ELSE 12)
    ELSE IF region = "temperate" THEN 8
    ELSE 0

get_dbh_growth_mm(species, region) ==
    IF region = "tropical" THEN (IF species \in TropicalFast THEN 20 ELSE 12)
    ELSE IF region = "temperate" THEN 8
    ELSE 5

(***************************************************************************)
(* Array helpers (numpy).                                                   *)
(***************************************************************************)
RECURSIVE Insert(_, _)
Insert(s, x) ==
    IF s = <<>> THEN <<x>>
    ELSE IF x <= Head(s) THEN <<x>> \o s
    ELSE <<Head(s)>> \o Insert(Tail(s), x)

RECURSIVE Sort(_)
Sort(s) == IF s = <<>> THEN <<>> ELSE Insert(Sort(Tail(s)), Head(s))

\* np.sort(arr)[-k:] for k > 0: the k largest, or all of them when k > len.
KeepLargest(arr, k) ==
    LET s == Sort(arr)
    IN  IF k >= Len(s) THEN s ELSE SubSeq(s, Len(s) - k + 1, Len(s))

\* np.full(n, v)
Full(n, v) == [i \in 1..n |-> v]

\* int(n / d) for d > 0: truncation toward zero.
PyInt(n, d) == IF n >= 0 THEN n \div d ELSE -((-n) \div d)

(***************************************************************************)
(* simulate_project: set-up.                                                *)
(***************************************************************************)
InitialTrees(area, mix) == PyInt(area * mix.density * mix.pct, 100)

RECURSIVE SetupStand(_, _, _)
SetupStand(area, mixes, trees) ==
    IF mixes = <<>> THEN trees
    ELSE LET mix == Head(mixes)
             n == InitialTrees(area, mix)
         IN  SetupStand(area, Tail(mixes),
                 DictSet(trees, mix.species_name,
                         [count |-> n, dbh_cm |-> Full(n, 10), region |-> mix.region]))

RECURSIVE TotalInitialTrees(_, _)
TotalInitialTrees(area, mixes) ==
    IF mixes = <<>> THEN 0
    ELSE InitialTrees(area, Head(mixes)) + TotalInitialTrees(area, Tail(mixes))

RECURSIVE ThinDict(_, _)
ThinDict(schedule, d) ==
    IF schedule = <<>> THEN d
    ELSE ThinDict(Tail(schedule), DictSet(d, Head(schedule).year, Head(schedule).pct_remove))

(***************************************************************************)
(* simulate_project: one cohort in one year.                                *)
(***************************************************************************)
\* Faulty variant: survivors rounded up instead of truncated.
SurvivorsCeil(count, mortality) == (count * (100 - mortality) + 99) \div 100

Survivors(count, mortality) == PyInt(count * (100 - mortality), 100)

\* Faulty variant: the count is lowered but the array is never cut.
CullCountOnly(data, survivors) == [data EXCEPT !.count = survivors]

\* "Keep largest trees": the array is cut only when it is longer.
Cull(data, survivors) ==
    [data EXCEPT !.dbh_cm = IF Len(@) > survivors THEN KeepLargest(@, survivors) ELSE @,
                 !.count = survivors]

\* Faulty variant: a keep_count of 0 resets the count but leaves the diameters.
ThinUnguarded(data, survivors, pct_remove) ==
    LET keep_count == PyInt(survivors * (100 - pct_remove), 100)
    IN  IF keep_count > 0
        THEN [data EXCEPT !.dbh_cm = KeepLargest(@, keep_count), !.count = keep_count]
        ELSE [data EXCEPT !.count = 0]

Thin(data, survivors, pct_remove) ==
    LET keep_count == PyInt(survivors * (100 - pct_remove), 100)
    IN  IF keep_count > 0
        THEN [data EXCEPT !.dbh_cm = KeepLargest(@, keep_count), !.count = keep_count]
        ELSE [data EXCEPT !.count = 0, !.dbh_cm = <<>>]

Grow(data, growth_mm) ==
    [data EXCEPT !.dbh_cm = [i \in 1..Len(@) |-> @[i] + growth_mm]]

RECURSIVE AgbTotal(_, _, _, _)
AgbTotal(cache, dbhs, species, region) ==
    IF dbhs = <<>> THEN QZero
    ELSE QAdd(calculate_agb_kg(cache, Head(dbhs), species, region),
              AgbTotal(cache, Tail(dbhs), species, region))

\* The body of "for species, data in current_trees.items()": the cohort
\* after the year, what it adds to total_biomass, and the cohort as it stood
\* at the end of each step that ran (mortality, culling, thinning, growth).
CohortStep(cache, species, data, yr, mortality, thin) ==
    IF data.count <= 0 THEN [data |-> data, biomass |-> QZero, stages |-> <<>>]
    ELSE LET survivors == Survivors(data.count, mortality)
             cleared == [data EXCEPT !.count = 0, !.dbh_cm = <<>>]
         IN  IF survivors <= 0
             THEN [data |-> cleared, biomass |-> QZero,
                   stages |-> <<[step |-> "mortality", data |-> cleared]>>]
             ELSE LET culled == Cull(data, survivors)
                      thinned == IF DictHas(thin, yr)
                                 THEN Thin(culled, survivors, DictGet(thin, yr))
                                 ELSE culled
                      grown == Grow(thinned, get_dbh_growth_mm(species, data.region))
                      agb_total == AgbTotal(cache, grown.dbh_cm, species, grown.region)
                  IN  [data |-> grown,
                       biomass |-> QScale(agb_total, Pct(100 + ROOT_SHOOT_RATIO)),
                       stages |-> <<[step |-> "culling", data |-> culled]>>
                                  \o (IF DictHas(thin, yr)
                                      THEN <<[step |-> "thinning", data |-> thinned]>>
                                      ELSE <<>>)
                                  \o <<[step |-> "growth", data |-> grown]>>]

RECURSIVE SumBiomass(_)
SumBiomass(steps) ==
    IF steps = <<>> THEN QZero
    ELSE QAdd(Head(steps).biomass, SumBiomass(Tail(steps)))

RECURSIVE SumCounts(_)
SumCounts(trees) ==
    IF trees = <<>> THEN 0 ELSE Head(trees).val.count + SumCounts(Tail(trees))

\* The record appended at the end of a year.
YearRecord(yr, trees, total_biomass) ==
    LET carbon_t == QScale(QScale(total_biomass, Rat(1, 1000)), Pct(CARBON_FRACTION))
        co2e_gross_t == QScale(carbon_t, Pct(CO2E_FACTOR))
        co2e_net_t == QScale(co2e_gross_t, Pct(100 - VERRA_BUFFER))
    IN  [year |-> yr,
         trees_total |-> SumCounts(trees),
         biomass_t |-> QScale(total_biomass, Rat(1, 1000)),
         carbon_t |-> carbon_t,
         co2e_gross_t |-> co2e_gross_t,
         co2e_net_t |-> co2e_gross_t,
         soil_co2e_gross_t |-> QZero]

\* Faulty variant: range(1, project_years).
LoopContinuesShort(yr, years) == yr + 1 < years

\* range(1, project_years + 1) has a next year after yr completed years.
LoopContinues(yr, years) == yr < years

\* Faulty variant: the region of the last mix entry.
SoilRegionLast(mixes) == mixes[Len(mixes)].region

SoilRegion(mixes) == mixes[1].region

\* The soil pass over one record.
WithSoil(rec, annual_soil_gross) ==
    [k \in DOMAIN rec \cup {"soil_co2e_gross_t", "total_gross_t"} |->
        CASE k = "soil_co2e_gross_t" -> QConst(annual_soil_gross)
          [] k = "total_gross_t" -> QAdd(rec.co2e_gross_t, QConst(annual_soil_gross))
          [] OTHER -> rec[k]]

(***************************************************************************)
(* State.                                                                   *)
(***************************************************************************)
VARIABLES
    equations_df,        \* the coefficient table, rows in load order
    coeff_cache,         \* (species, region) -> coefficients
    lookup,              \* the last get_coeffs call and its answer
    pc,                  \* "idle", "loop", "done" or "TypeError"
    area_ha, species_mix, project_years, annual_mortality,
    thin_dict,           \* year -> pct_remove
    management,          \* <<>> when the keyword is not passed, else <<flags>>
    current_trees,       \* species -> [count, dbh_cm, region], a dict
    total_initial_trees,
    year,                \* years completed by the loop
    yearly_results,
    cohort_steps         \* per cohort, the steps of the last year as they ended

storeVars == <<equations_df, coeff_cache, lookup>>

simVars == <<pc, area_ha, species_mix, project_years, annual_mortality, thin_dict,
             management, current_trees, total_initial_trees, year, yearly_results,
             cohort_steps>>

vars == <<storeVars, simVars>>

NoLookup == [species |-> "", region |-> "", coeffs |-> GenericDefault, done |-> FALSE]

\* CarbonCreditSimulator(data_path): the table is read and the cache built;
\* no simulation has been called.
Construct(df) ==
    /\ equations_df = df
    /\ coeff_cache = build_coeff_cache(df, <<>>)
    /\ lookup = NoLookup
    /\ pc = "idle"
    /\ area_ha = 0
    /\ species_mix = <<>>
    /\ project_years = 0
    /\ annual_mortality = 0
    /\ thin_dict = <<>>
    /\ management = <<>>
    /\ current_trees = <<>>
    /\ total_initial_trees = 0
    /\ year = 0
    /\ yearly_results = <<>>
    /\ cohort_steps = <<>>

(***************************************************************************)
(* The coefficient store on its own: any table, any lookup.                 *)
(***************************************************************************)
InitStore == \E df \in Tables : Construct(df)

\* One call get_coeffs(species, region); its answer is kept in lookup.
GetCoeffs ==
    /\ \E s \in LookupSpecies, r \in LookupRegions :
          lookup' = [species |-> s, region |-> r,
                     coeffs |-> get_coeffs(coeff_cache, s, r), done |-> TRUE]
    /\ UNCHANGED <<equations_df, coeff_cache, simVars>>

NextStore == GetCoeffs

SpecStore == InitStore /\ [][NextStore]_vars

(***************************************************************************)
(* The simulator.                                                           *)
(***************************************************************************)
\* The table the simulations run on: one species in one region, so that the
\* mixes below meet the exact row, the species fallback and the default.
SimTable ==
    << [species_name |-> "Acacia mangium", region |-> "tropical",
        a |-> 1200, b |-> 2400, wood_density |-> <<>>] >>

\* The plantings a mix entry may name: an exact row of SimTable with a fast
\* tropical species, the same species in two regions without a row (species
\* fallback), and a species with no row at all (generic default).
MixPlantings ==
    { <<"Acacia mangium", "tropical">>, <<"Acacia mangium", "boreal">>,
      <<"Tectona grandis", "tropical">>, <<"Tectona grandis", "temperate">> }

\* 50 % of 3 stems/ha: 1.5 stems on one hectare, so int() truncates.
MixEntries ==
    { [species_name |-> sr[1], region |-> sr[2], pct |-> 50, density |-> 3] :
        sr \in MixPlantings }

Mortalities == {0, 4, 50}

RemovePcts == {0, 50, 100}

ThinningSchedules ==
    {<<>>} \cup { <<[year |-> y, pct_remove |-> p]>> : y \in 1..MaxYears, p \in RemovePcts }

NoFlags == [irrigation |-> FALSE, nutrients |-> FALSE, biochar |-> FALSE]

Managements == { <<>>, <<NoFlags>>, <<[NoFlags EXCEPT !.irrigation = TRUE]>> }

Init == Construct(SimTable)

\* simulate_project(area_ha, species_mix, project_years, annual_mortality,
\* thinning_schedule): the set-up before the loop.
Call ==
    /\ pc = "idle"
    /\ \E area \in 1..MaxArea, mixes \in SeqsUpTo(MixEntries, MaxMix),
          years \in 1..MaxYears, mortality \in Mortalities,
          schedule \in ThinningSchedules :
          /\ area_ha' = area
          /\ species_mix' = mixes
          /\ project_years' = years
          /\ annual_mortality' = mortality
          /\ thin_dict' = ThinDict(schedule, <<>>)
          /\ current_trees' = SetupStand(area, mixes, <<>>)
          /\ total_initial_trees' = TotalInitialTrees(area, mixes)
    /\ management' = <<>>
    /\ yearly_results' = <<>>
    /\ cohort_steps' = <<>>
    /\ year' = 0
    /\ pc' = "loop"
    /\ UNCHANGED storeVars

\* simulate_project(..., management=flags), as app.py calls it: the method
\* has no such parameter, so the call raises TypeError before its body runs.
CallWithManagement ==
    /\ pc = "idle"
    /\ \E m \in Managements \ {<<>>} : management' = m
    /\ pc' = "TypeError"
    /\ UNCHANGED <<storeVars, area_ha, species_mix, project_years, annual_mortality,
                   thin_dict, current_trees, total_initial_trees, year, yearly_results,
                   cohort_steps>>

\* One iteration of "for year in range(1, project_years + 1)".
YearStep ==
    /\ pc = "loop"
    /\ LoopContinues(year, project_years)
    /\ LET yr == year + 1
           steps == [i \in 1..Len(current_trees) |->
                        CohortStep(coeff_cache, current_trees[i].key, current_trees[i].val,
                                   yr, annual_mortality, thin_dict)]
           trees == [i \in 1..Len(current_trees) |->
                        [key |-> current_trees[i].key, val |-> steps[i].data]]
       IN  /\ current_trees' = trees
           /\ yearly_results' = Append(yearly_results, YearRecord(yr, trees, SumBiomass(steps)))
           /\ cohort_steps' = [i \in 1..Len(current_trees) |-> steps[i].stages]
           /\ year' = yr
    /\ UNCHANGED <<storeVars, pc, area_ha, species_mix, project_years, annual_mortality,
                   thin_dict, management, total_initial_trees>>

\* After the loop: the soil pass and the return.
Return ==
    /\ pc = "loop"
    /\ ~LoopContinues(year, project_years)
    /\ yearly_results' =
          IF species_mix # <<>>
          THEN LET soil_co2e_total_gross ==
                       estimate_soil_carbon(area_ha, SoilRegion(species_mix))
                   annual_soil_gross == RMul(soil_co2e_total_gross, Rat(1, project_years))
               IN  [i \in 1..Len(yearly_results) |->
                        WithSoil(yearly_results[i], annual_soil_gross)]
          ELSE yearly_results
    /\ pc' = "done"
    /\ UNCHANGED <<storeVars, area_ha, species_mix, project_years, annual_mortality,
                   thin_dict, management, current_trees, total_initial_trees, year,
                   cohort_steps>>

Next == Call \/ CallWithManagement \/ YearStep \/ Return

Spec == Init /\ [][Next]_vars
(***************************************************************************)
(* Properties.                                                              *)
(***************************************************************************)
Started == pc \in {"loop", "done"}

MinOf(S) == CHOOSE x \in S : \A y \in S : x <= y

MaxOf(S) == CHOOSE x \in S : \A y \in S : x >= y

MaxInt(x, y) == IF x >= y THEN x ELSE y

\* The stand as set up from the arguments of the running call.
InitialStand == SetupStand(area_ha, species_mix, <<>>)

\* C1: a finished simulation of N >= 1 years has returned exactly N records
\* whose 'year' fields are 1, 2, ..., N in that order; while the loop runs the
\* records so far are those of years 1..year, one per completed year.
C1_RecordsPerYear ==
    Started =>
        /\ Len(yearly_results) = year
        /\ \A i \in 1..Len(yearly_results) : yearly_results[i].year = i
        /\ pc = "done" => Len(yearly_results) = project_years

C1_Witness ==
    /\ pc = "done"
    /\ project_years >= 2
    /\ Len(yearly_results) = project_years
    /\ species_mix # <<>>

\* Rows of the loaded table with a given species and region / species.
RowsOfPair(s, r) ==
    {i \in 1..Len(equations_df) :
        equations_df[i].species_name = s /\ equations_df[i].region = r}

RowsOfSpecies(s) ==
    {i \in 1..Len(equations_df) : equations_df[i].species_name = s}

\* C2 as stated: an exact pair answers with a row of that pair, and a species
\* known only under other regions answers with its first row in load order.
C2_FirstRowInLoadOrder ==
    lookup.done =>
        LET exact == RowsOfPair(lookup.species, lookup.region)
            same == RowsOfSpecies(lookup.species)
        IN  /\ exact # {} =>
                  \E i \in exact : lookup.coeffs = RowCoeffs(equations_df[i])
            /\ (exact = {} /\ same # {}) =>
                  lookup.coeffs = RowCoeffs(equations_df[MinOf(same)])

\* C2 amended: an exact pair answers with the LAST row of that pair (blank
\* wood_density read as 0.5); a species known only under other regions
\* answers with the entry of the (species, region) key that was loaded first
\* for that species, which holds the values of the last row with that key.
C2_LookupPrecedence ==
    lookup.done =>
        LET exact == RowsOfPair(lookup.species, lookup.region)
            same == RowsOfSpecies(lookup.species)
        IN  /\ exact # {} =>
                  lookup.coeffs = RowCoeffs(equations_df[MaxOf(exact)])
            /\ (exact = {} /\ same # {}) =>
                  LET firstRegion == equations_df[MinOf(same)].region
                  IN  lookup.coeffs =
                        RowCoeffs(equations_df[MaxOf(RowsOfPair(lookup.species, firstRegion))])

\* A fallback lookup over a table whose first key of the species was loaded
\* twice with different values, and a second region of the species follows.
C2_Witness ==
    /\ lookup.done
    /\ RowsOfPair(lookup.species, lookup.region) = {}
    /\ Cardinality(RowsOfSpecies(lookup.species)) >= 2
    /\ lookup.coeffs # RowCoeffs(equations_df[MinOf(RowsOfSpecies(lookup.species))])

\* C3: every lookup answers with a coefficient record, and for a species that
\* occurs in no row of the table the record is the generic default
\* a=0.0673, b=2.3230, wood_density=0.5.
C3_LookupNeverFails ==
    lookup.done =>
        /\ lookup.coeffs \in [a : Nat, b : Nat, wood_density : Nat]
        /\ RowsOfSpecies(lookup.species) = {} =>
              lookup.coeffs = [a |-> 673, b |-> 2323, wood_density |-> 50]

C3_Witness ==
    /\ lookup.done
    /\ equations_df # <<>>
    /\ RowsOfSpecies(lookup.species) = {}
    /\ lookup.coeffs.b = 2323

\* C4: with annual_mortality = 0 and no thinning, a year's step leaves every
\* cohort's stem count as it was and makes every tree's diameter strictly
\* larger, and the year's record carries the initial total stem count.
C4_NoLossAndGrowth ==
    [][ (pc = "loop" /\ annual_mortality = 0 /\ thin_dict = <<>> /\ year' = year + 1) =>
           /\ \A i \in 1..Len(current_trees) :
                 /\ current_trees'[i].val.count = current_trees[i].val.count
                 /\ current_trees'[i].val.count = InitialStand[i].val.count
                 /\ Len(current_trees'[i].val.dbh_cm) = Len(current_trees[i].val.dbh_cm)
                 /\ \A j \in 1..Len(current_trees[i].val.dbh_cm) :
                       current_trees'[i].val.dbh_cm[j] > current_trees[i].val.dbh_cm[j]
           /\ yearly_results'[year'].trees_total = SumCounts(InitialStand) ]_vars

C4_Witness ==
    /\ pc = "done"
    /\ annual_mortality = 0
    /\ thin_dict = <<>>
    /\ year >= 2
    /\ \E i \in 1..Len(current_trees) :
          /\ current_trees[i].val.region = "boreal"
          /\ current_trees[i].val.count >= 1
          /\ current_trees[i].val.dbh_cm[1] > 10

\* C5: with annual_mortality > 0, trees_total never rises from one yearly
\* record to the next, and after y years a cohort that started with c stems
\* has at most max(0, c - y) of them, so it is at 0 from year c on.
C5_MortalityDrains ==
    (Started /\ annual_mortality > 0) =>
        /\ \A i \in 1..(Len(yearly_results) - 1) :
              yearly_results[i + 1].trees_total <= yearly_results[i].trees_total
        /\ Len(yearly_results) >= 1 =>
              yearly_results[1].trees_total <= SumCounts(InitialStand)
        /\ \A i \in 1..Len(current_trees) :
              current_trees[i].val.count
                 <= MaxInt(0, InitialStand[i].val.count - year)

\* Mortality alone has brought a cohort of three stems to none.
C5_Witness ==
    /\ Started
    /\ annual_mortality > 0
    /\ thin_dict = <<>>
    /\ \E i \in 1..Len(current_trees) :
          /\ InitialStand[i].val.count >= 3
          /\ current_trees[i].val.count = 0
    /\ \E i \in 1..(Len(yearly_results) - 1) :
          /\ yearly_results[i + 1].trees_total < yearly_results[i].trees_total
          /\ yearly_results[i + 1].trees_total > 0

\* C6 as stated: a call that passes management flags is accepted, and with
\* irrigation set every live tree has grown by 1.15 times the base increment
\* in each completed year (diameters in tenths of a cm, times 100).
C6_IrrigationUplift ==
    management # <<>> =>
        /\ pc # "TypeError"
        /\ (Started /\ management[1].irrigation) =>
              \A i \in 1..Len(current_trees) :
                 \A j \in 1..Len(current_trees[i].val.dbh_cm) :
                    100 * current_trees[i].val.dbh_cm[j] =
                       1000 + year * 115 *
                          get_dbh_growth_mm(current_trees[i].key, current_trees[i].val.region)

RECURSIVE SumSoil(_)
SumSoil(results) ==
    IF results = <<>> THEN RZero
    ELSE RAdd(Head(results).soil_co2e_gross_t.const, SumSoil(Tail(results)))

\* C7: for a non-empty species_mix the soil field is the placeholder 0 while
\* the loop runs; in the returned records it is one and the same amount, and
\* its sum over the project_years records is
\* area_ha * SOC(region of the first mix entry) * 0.10 * 3.67.
C7_SoilRoundTrip ==
    (Started /\ species_mix # <<>>) =>
        /\ pc = "loop" =>
              \A i \in 1..Len(yearly_results) :
                 yearly_results[i].soil_co2e_gross_t = QZero
        /\ pc = "done" =>
              /\ Len(yearly_results) = project_years
              /\ \A i \in 1..Len(yearly_results) :
                    /\ yearly_results[i].soil_co2e_gross_t.agb = {}
                    /\ yearly_results[i].soil_co2e_gross_t =
                          yearly_results[1].soil_co2e_gross_t
              /\ SumSoil(yearly_results) =
                    Rat(area_ha * SocDefault(species_mix[1].region) * 10 * 367, 100 * 100)

\* Three years, two entries of different regions: a total not divisible by 3.
C7_Witness ==
    /\ pc = "done"
    /\ project_years = 3
    /\ Len(species_mix) = 2
    /\ SocDefault(species_mix[1].region) # SocDefault(species_mix[2].region)
    /\ yearly_results[1].soil_co2e_gross_t.const[2] # 1

\* C8 as stated: every record's net field is its gross field less the 20 %
\* buffer, co2e_net_t = co2e_gross_t * (1 - 0.20).
C8_NetIsGrossLessBuffer ==
    \A i \in 1..Len(yearly_results) :
        yearly_results[i].co2e_net_t =
            QScale(yearly_results[i].co2e_gross_t, Rat(100 - 20, 100))

RECURSIVE LiveBiomass(_)
LiveBiomass(trees) ==
    IF trees = <<>> THEN QZero
    ELSE QAdd(IF Head(trees).val.count > 0
              THEN QScale(AgbTotal(coeff_cache, Head(trees).val.dbh_cm,
                                   Head(trees).key, Head(trees).val.region),
                          Rat(12, 10))
              ELSE QZero,
              LiveBiomass(Tail(trees)))

\* C9: a cohort at 0 stems has an empty diameter array and stays so in every
\* later year; the biomass of each year's record is that of the cohorts with
\* stems left only; the loop never overruns, and a finished run returns all
\* project_years records.
C9_ExtinctionAbsorbing ==
    /\ [](Started =>
            /\ \A i \in 1..Len(current_trees) :
                  current_trees[i].val.count = 0 => current_trees[i].val.dbh_cm = <<>>
            /\ year >= 1 =>
                  yearly_results[year].biomass_t =
                      QScale(LiveBiomass(current_trees), Rat(1, 1000))
            /\ pc = "loop" => year <= project_years
            /\ pc = "done" => Len(yearly_results) = project_years)
    /\ [][ pc = "loop" =>
              \A i \in 1..Len(current_trees) :
                 current_trees[i].val.count = 0 =>
                    /\ current_trees'[i].val.count = 0
                    /\ current_trees'[i].val.dbh_cm = <<>> ]_vars

\* Thinning alone emptied a cohort before the last year, and the run
\* returned all its records, the later ones without biomass.
C9_Witness ==
    /\ pc = "done"
    /\ annual_mortality = 0
    /\ thin_dict # <<>>
    /\ Len(current_trees) = 1
    /\ InitialStand[1].val.count >= 1
    /\ current_trees[1].val.count = 0
    /\ Len(yearly_results) = project_years
    /\ project_years >= 2
    /\ yearly_results[project_years - 1].trees_total = 0
    /\ QIsZero(yearly_results[project_years].biomass_t)
    /\ ~QIsZero(yearly_results[1].biomass_t)

RECURSIVE SumTruncated(_, _)
SumTruncated(area, mixes) ==
    IF mixes = <<>> THEN 0
    ELSE (area * Head(mixes).density * Head(mixes).pct) \div 100
            + SumTruncated(area, Tail(mixes))

\* C10 as stated: before year 1 there is a cohort for each mix entry, each
\* tree at 1.0 cm, and the stems of all cohorts add up to the sum over all
\* mix entries of floor(area_ha * density * pct / 100).
C10_InitialStems ==
    (pc = "loop" /\ year = 0) =>
        /\ \A i \in 1..Len(current_trees) :
              /\ Len(current_trees[i].val.dbh_cm) = current_trees[i].val.count
              /\ \A j \in 1..current_trees[i].val.count :
                    current_trees[i].val.dbh_cm[j] = 10
        /\ Len(current_trees) = Len(species_mix)
        /\ SumCounts(current_trees) = SumTruncated(area_ha, species_mix)

RECURSIVE SumWeights(_)
SumWeights(entries) ==
    IF entries = {} THEN RZero
    ELSE LET e == CHOOSE x \in entries : TRUE
         IN  RAdd(e.w, SumWeights(entries \ {e}))

\* C11: with annual_mortality in [0,1) and removal percentages in [0,100],
\* every cohort's count is non-negative and equals the length of its diameter
\* array when it is set up, at the end of each step of each year (mortality,
\* culling, thinning, growth) and at the end of the year; and trees_total of
\* every record is the number of trees whose biomass was summed for it (each
\* tree weighs (1 + 0.20) / 1000 in biomass_t).
C11_CountMatchesDiameters ==
    Started =>
        /\ \A i \in 1..Len(current_trees) :
              /\ current_trees[i].val.count >= 0
              /\ current_trees[i].val.count = Len(current_trees[i].val.dbh_cm)
        /\ \A i \in 1..Len(cohort_steps) :
              \A k \in 1..Len(cohort_steps[i]) :
                 /\ cohort_steps[i][k].data.count >= 0
                 /\ cohort_steps[i][k].data.count = Len(cohort_steps[i][k].data.dbh_cm)
        /\ \A y \in 1..Len(yearly_results) :
              SumWeights(yearly_results[y].biomass_t.agb) =
                  Rat(yearly_results[y].trees_total * 120, 100 * 1000)

\* A year in which mortality cut a cohort, thinning cut it again and the
\* rest grew: all three steps ended with count and array in step.
C11_Witness ==
    /\ Started
    /\ annual_mortality > 0
    /\ \E i \in 1..Len(cohort_steps) :
          /\ Len(cohort_steps[i]) = 3
          /\ cohort_steps[i][1].data.count < InitialStand[i].val.count
          /\ cohort_steps[i][2].step = "thinning"
          /\ cohort_steps[i][2].data.count < cohort_steps[i][1].data.count
          /\ cohort_steps[i][3].data.count >= 1
          /\ Len(current_trees[i].val.dbh_cm) = cohort_steps[i][3].data.count
    /\ yearly_results[year].trees_total >= 1
=============================================================================
